---- MODULE Spec2Model ----
(***************************************************************************)
(* Model of src/torch/dataset.py: the AudioFile frame accessor, the        *)
(* silence-filtered frame list and the two dataset classes, LstDataset     *)
(* (decoded audio kept in memory) and DatasetFromDisk (audio re-read on    *)
(* every access).                                                          *)
(*                                                                         *)
(* Samples are integers in units of 1e-4 of full scale, so a frame's       *)
(* energy np.sum(abs(frame)**2)/len(frame) is SumSq(frame)/Len(frame) in   *)
(* units of 1e-8 and the code's silence_threshold of 1e-8 is 1 unit.       *)
(* Python containers are 0-based and TLA+ sequences 1-based: the 0-based   *)
(* indices of the code (audio_idx, frame_idx, idx) are kept and shifted    *)
(* where a sequence is subscripted.                                        *)
(***************************************************************************)
EXTENDS Integers, Sequences, FiniteSets, TLC

\* ---- bounds of the model ----
MaxAudioLength == 3
MaxFileLength == 2
MaxFrameLength == 2
MaxRows == 2
MaxCounter == 5
MaxRounds == 2

\* sample values (units of 1e-4): silence, a value whose square is exactly
\* the threshold, and a value above it
Samples == {0, 1, 2}
Paths == {"a.wav", "b.wav"}
None == "None"

VARIABLES
    \* one AudioFile object under direct use
    af,         \* the object's attributes
    before,     \* its attributes before the last operation
    yielded,    \* frames returned by __next__ since the last StopIteration
    last_run,   \* the frames of the last completed iteration
    rounds,     \* completed iterations
    \* the file system and the two dataset objects
    disk,       \* path -> whether sf.read can decode it, and its samples
    lst_file,   \* whether the .lst file exists, and its rows
    parameters, \* the ambient parameters object
    resident,   \* the LstDataset object
    ondemand,   \* the DatasetFromDisk object
    io,         \* paths passed to sf.read by the last operation, in order
    \* the last call
    op, arg, ret, raised

audio_vars == <<af, before, yielded, last_run, rounds>>
data_vars == <<disk, lst_file, parameters, resident, ondemand, io>>
call_vars == <<op, arg, ret, raised>>
vars == <<af, before, yielded, last_run, rounds, disk, lst_file, parameters,
          resident, ondemand, io, op, arg, ret, raised>>

\* ---- Python and numpy primitives ----
Min(a, b) == IF a < b THEN a ELSE b
Max(a, b) == IF a > b THEN a ELSE b

\* a slice bound as Python normalises it against a length n
PySliceBound(i, n) == IF i < 0 THEN Max(i + n, 0) ELSE Min(i, n)

\* s[a:b]
PySlice(s, a, b) ==
    LET lo == PySliceBound(a, Len(s))
        hi == PySliceBound(b, Len(s))
    IN  IF lo < hi THEN SubSeq(s, lo + 1, hi) ELSE <<>>

\* variant: a negative index is rejected instead of counted from the end
PyListIndex_nowrap(idx, n) ==
    IF idx >= n \/ idx < 0 THEN -1 ELSE idx

\* the position list[idx] reads (0-based), or -1 where it raises IndexError
PyListIndex(idx, n) ==
    IF idx >= n \/ idx < -n THEN -1
    ELSE IF idx < 0 THEN idx + n ELSE idx

\* np.zeros(n)
Zeros(n) == [k \in 1..n |-> 0]

Abs(x) == IF x < 0 THEN -x ELSE x

RECURSIVE SumSq(_)
\* np.sum(abs(frame)**2)
SumSq(frame) ==
    IF frame = <<>> THEN 0
    ELSE Abs(Head(frame)) * Abs(Head(frame)) + SumSq(Tail(frame))

\* torch.Tensor(frame).unsqueeze(1): shape [len(frame), 1]
TensorUnsqueeze(frame) == [k \in 1..Len(frame) |-> <<frame[k]>>]

\* ---- class AudioFile ----
\* AudioFile.__init__ on readable data
AudioFile_init(path, frame_length, data) ==
    [frame_counter |-> 0, audiofile_path |-> path, frame_length |-> frame_length,
     audio_data |-> data, audio_length |-> Len(data)]

\* AudioFile.__len__
AudioFile_len(self) == self.audio_length \div self.frame_length

\* variant: the guard is strict
has_next_frame_strict(self) == self.frame_counter < AudioFile_len(self)

has_next_frame(self) == self.frame_counter <= AudioFile_len(self)

get_next_frame(self) ==
    LET start_index == self.frame_counter * self.frame_length
        end_index == start_index + self.frame_length
    IN  [self |-> [self EXCEPT !.frame_counter = @ + 1],
         ret |-> PySlice(self.audio_data, start_index, end_index)]

get_frame(self, frame_idx) ==
    LET start_index == frame_idx * self.frame_length
        end_index == start_index + self.frame_length
    IN  PySlice(self.audio_data, start_index, end_index)

\* variant: the recorded length is not refreshed after padding
zero_pad_stale_length(self) ==
    LET remaining == self.audio_length % self.frame_length
        padded == self.audio_data \o Zeros(self.frame_length - remaining)
    IN  IF remaining = 0 THEN self
        ELSE [self EXCEPT !.audio_data = padded]

zero_pad(self) ==
    LET remaining == self.audio_length % self.frame_length
        padded == self.audio_data \o Zeros(self.frame_length - remaining)
    IN  IF remaining = 0 THEN self
        ELSE [self EXCEPT !.audio_data = padded, !.audio_length = Len(padded)]

\* variant: exhaustion is detected one call late
AudioFile_next_late(self) ==
    IF self.frame_counter > AudioFile_len(self)
    THEN [self |-> [self EXCEPT !.frame_counter = 0], raised |-> TRUE, ret |-> <<>>]
    ELSE [self |-> [self EXCEPT !.frame_counter = @ + 1], raised |-> FALSE,
          ret |-> get_frame(self, self.frame_counter)]

\* variant: the counter is not rewound on exhaustion
AudioFile_next_noreset(self) ==
    IF self.frame_counter >= AudioFile_len(self)
    THEN [self |-> self, raised |-> TRUE, ret |-> <<>>]
    ELSE [self |-> [self EXCEPT !.frame_counter = @ + 1], raised |-> FALSE,
          ret |-> get_frame(self, self.frame_counter)]

\* AudioFile.__next__
AudioFile_next(self) ==
    IF self.frame_counter >= AudioFile_len(self)
    THEN [self |-> [self EXCEPT !.frame_counter = 0], raised |-> TRUE, ret |-> <<>>]
    ELSE [self |-> [self EXCEPT !.frame_counter = @ + 1], raised |-> FALSE,
          ret |-> get_frame(self, self.frame_counter)]

RECURSIVE Iterate(_, _)
\* "for ... in enumerate(audiofile)": __next__ until it raises StopIteration
Iterate(self, acc) ==
    LET r == AudioFile_next(self)
    IN  IF r.raised THEN [self |-> r.self, frames |-> acc]
        ELSE Iterate(r.self, Append(acc, r.ret))

\* ---- class LstDataset ----
\* 1e-8, in units of the squared sample unit
silence_threshold == 1

\* variant: a frame exactly at the threshold is kept
IsLoud_inclusive(frame) == SumSq(frame) >= silence_threshold * Len(frame)

\* the test of the inner loop body, without the division
IsLoud(frame) == SumSq(frame) > silence_threshold * Len(frame)

\* the inner loop over one audio file: the file as the loop leaves it, and
\* the entries it appends
ScanFile(audioIdx, audiofile) ==
    LET it == Iterate(audiofile, <<>>)
        all == [k \in 1..Len(it.frames) |->
                  [audio_idx |-> audioIdx, frame_idx |-> k - 1]]
        loud(e) == IsLoud(it.frames[e.frame_idx + 1])
    IN  [self |-> it.self, entries |-> SelectSeq(all, loud)]

RECURSIVE Flatten(_)
Flatten(ss) == IF ss = <<>> THEN <<>> ELSE Head(ss) \o Flatten(Tail(ss))

compute_frame_list_from_audio_files(audio_files_array) ==
    LET scans == [i \in 1..Len(audio_files_array) |->
                    ScanFile(i - 1, audio_files_array[i])]
    IN  [audio_files |-> [i \in 1..Len(scans) |-> scans[i].self],
         frames |-> Flatten([i \in 1..Len(scans) |-> scans[i].entries])]

\* the list comprehension stops at the first file sf.read cannot decode
load_audio_files(lst_data, label, frame_length, d) ==
    LET paths == [i \in 1..Len(lst_data) |-> lst_data[i][label]]
        bad == {i \in 1..Len(paths) : ~d[paths[i]].exists}
        stop == IF bad = {} THEN Len(paths)
                ELSE CHOOSE i \in bad : \A j \in bad : i <= j
    IN  [raised |-> bad # {},
         io |-> SubSeq(paths, 1, stop),
         files |-> IF bad # {} THEN <<>>
                   ELSE [i \in 1..Len(paths) |->
                           AudioFile_init(paths[i], frame_length, d[paths[i]].data)]]

Unbuilt == [built |-> FALSE]

\* variant: only the source column is decoded
LoadAndScan_sources_only(params, lst, d) ==
    LET src == load_audio_files(lst.rows, "source", params.frame_length, d)
        scan == compute_frame_list_from_audio_files(src.files)
    IN  IF ~lst.exists THEN [raised |-> "OSError", io |-> <<>>, self |-> Unbuilt]
        ELSE IF src.raised
        THEN [raised |-> "LibsndfileError", io |-> src.io, self |-> Unbuilt]
        ELSE [raised |-> "none", io |-> src.io,
              self |-> [built |-> TRUE, parameters |-> params, lst_data |-> lst.rows,
                        source_audio_files |-> scan.audio_files,
                        target_audio_files |-> scan.audio_files,
                        frames |-> scan.frames]]

\* the attributes __init__ leaves on the object, before delete_audio_data
LoadAndScan(params, lst, d) ==
    LET src == load_audio_files(lst.rows, "source", params.frame_length, d)
        tgt == load_audio_files(lst.rows, "target", params.frame_length, d)
        scan == compute_frame_list_from_audio_files(src.files)
    IN  IF ~lst.exists THEN [raised |-> "OSError", io |-> <<>>, self |-> Unbuilt]
        ELSE IF src.raised
        THEN [raised |-> "LibsndfileError", io |-> src.io, self |-> Unbuilt]
        ELSE IF tgt.raised
        THEN [raised |-> "LibsndfileError", io |-> src.io \o tgt.io, self |-> Unbuilt]
        ELSE [raised |-> "none", io |-> src.io \o tgt.io,
              self |-> [built |-> TRUE, parameters |-> params, lst_data |-> lst.rows,
                        source_audio_files |-> scan.audio_files,
                        target_audio_files |-> tgt.files,
                        frames |-> scan.frames]]

LstDataset_init(params, lst, d) == LoadAndScan(params, lst, d)

LstDataset_len(self) == Len(self.frames)

LstDataset_getitem(self, idx) ==
    LET pos == PyListIndex(idx, Len(self.frames))
        audio_idx == self.frames[pos + 1].audio_idx
        frame_idx == self.frames[pos + 1].frame_idx
        source_frame == get_frame(self.source_audio_files[audio_idx + 1], frame_idx)
        target_frame == get_frame(self.target_audio_files[audio_idx + 1], frame_idx)
    IN  IF pos = -1 THEN [raised |-> "IndexError", ret |-> None, io |-> <<>>]
        ELSE [raised |-> "none", io |-> <<>>,
              ret |-> <<TensorUnsqueeze(source_frame), TensorUnsqueeze(target_frame)>>]

\* ---- class DatasetFromDisk ----
delete_audio_data(self) ==
    [built |-> TRUE, parameters |-> self.parameters, lst_data |-> self.lst_data,
     frames |-> self.frames]

DatasetFromDisk_init(params, lst, d) ==
    LET r == LoadAndScan(params, lst, d)
    IN  IF r.raised # "none" THEN r
        ELSE [r EXCEPT !.self = delete_audio_data(r.self)]

\* variant: the target frame is read from the source file
DatasetFromDisk_getitem_same_file(self, idx, d) ==
    LET pos == PyListIndex(idx, Len(self.frames))
        audio_idx == self.frames[pos + 1].audio_idx
        frame_idx == self.frames[pos + 1].frame_idx
        source_file == self.lst_data[audio_idx + 1].source
        frame_length == self.parameters.frame_length
        source_frame ==
            get_frame(AudioFile_init(source_file, frame_length, d[source_file].data),
                      frame_idx)
    IN  IF pos = -1 THEN [raised |-> "IndexError", ret |-> None, io |-> <<>>]
        ELSE IF ~d[source_file].exists
        THEN [raised |-> "LibsndfileError", ret |-> None, io |-> <<source_file>>]
        ELSE [raised |-> "none", io |-> <<source_file, source_file>>,
              ret |-> <<TensorUnsqueeze(source_frame), TensorUnsqueeze(source_frame)>>]

DatasetFromDisk_getitem(self, idx, d) ==
    LET pos == PyListIndex(idx, Len(self.frames))
        audio_idx == self.frames[pos + 1].audio_idx
        frame_idx == self.frames[pos + 1].frame_idx
        source_file == self.lst_data[audio_idx + 1].source
        target_file == self.lst_data[audio_idx + 1].target
        frame_length == self.parameters.frame_length
        source_frame ==
            get_frame(AudioFile_init(source_file, frame_length, d[source_file].data),
                      frame_idx)
        target_frame ==
            get_frame(AudioFile_init(target_file, frame_length, d[target_file].data),
                      frame_idx)
    IN  IF pos = -1 THEN [raised |-> "IndexError", ret |-> None, io |-> <<>>]
        ELSE IF ~d[source_file].exists
        THEN [raised |-> "LibsndfileError", ret |-> None, io |-> <<source_file>>]
        ELSE IF ~d[target_file].exists
        THEN [raised |-> "LibsndfileError", ret |-> None,
              io |-> <<source_file, target_file>>]
        ELSE [raised |-> "none", io |-> <<source_file, target_file>>,
              ret |-> <<TensorUnsqueeze(source_frame), TensorUnsqueeze(target_frame)>>]

\* ---- the sets the initial states are drawn from ----
SeqsUpTo(S, n) == UNION {[1..k -> S] : k \in 0..n}

AudioData == SeqsUpTo(Samples, MaxAudioLength)

DiskEntries ==
    {[exists |-> TRUE, data |-> s] : s \in SeqsUpTo(Samples, MaxFileLength)}
        \cup {[exists |-> FALSE, data |-> <<>>]}

Rows == [source : Paths, target : Paths]

LstFiles ==
    {[exists |-> TRUE, rows |-> r] : r \in SeqsUpTo(Rows, MaxRows)}
        \cup {[exists |-> FALSE, rows |-> <<>>]}

NoAudio == AudioFile_init("none", 1, <<>>)

\* ---- states ----
NoCall == /\ op = "none" /\ arg = None /\ ret = None /\ raised = "none"

AudioIdle ==
    /\ af = NoAudio /\ before = NoAudio
    /\ yielded = <<>> /\ last_run = <<>> /\ rounds = 0

DataIdle ==
    /\ disk = [p \in Paths |-> [exists |-> FALSE, data |-> <<>>]]
    /\ lst_file = [exists |-> FALSE, rows |-> <<>>]
    /\ parameters = [frame_length |-> 1]
    /\ resident = Unbuilt /\ ondemand = Unbuilt
    /\ io = <<>>

\* an AudioFile just constructed on some decoded file
InitAudio ==
    /\ \E data \in AudioData, frame_length \in 1..MaxFrameLength :
          af = AudioFile_init("a.wav", frame_length, data)
    /\ before = af
    /\ yielded = <<>> /\ last_run = <<>> /\ rounds = 0
    /\ DataIdle
    /\ NoCall

\* a file system, a manifest and a frame length; no dataset built yet
InitData ==
    /\ disk \in [Paths -> DiskEntries]
    /\ lst_file \in LstFiles
    /\ parameters \in [frame_length : 1..MaxFrameLength]
    /\ resident = Unbuilt /\ ondemand = Unbuilt
    /\ io = <<>>
    /\ AudioIdle
    /\ NoCall

\* ---- operations on the AudioFile ----
Call_len ==
    /\ op' = "__len__" /\ arg' = None /\ raised' = "none"
    /\ ret' = AudioFile_len(af)
    /\ before' = af
    /\ UNCHANGED <<af, yielded, last_run, rounds>>
    /\ UNCHANGED data_vars

Call_has_next_frame ==
    /\ op' = "has_next_frame" /\ arg' = None /\ raised' = "none"
    /\ ret' = has_next_frame(af)
    /\ before' = af
    /\ UNCHANGED <<af, yielded, last_run, rounds>>
    /\ UNCHANGED data_vars

Call_get_next_frame ==
    /\ af.frame_counter < MaxCounter
    /\ op' = "get_next_frame" /\ arg' = None /\ raised' = "none"
    /\ ret' = get_next_frame(af).ret
    /\ af' = get_next_frame(af).self
    /\ before' = af
    /\ UNCHANGED <<yielded, last_run, rounds>>
    /\ UNCHANGED data_vars

Call_get_frame ==
    \E frame_idx \in -1..MaxAudioLength :
        /\ op' = "get_frame" /\ arg' = frame_idx /\ raised' = "none"
        /\ ret' = get_frame(af, frame_idx)
        /\ before' = af
        /\ UNCHANGED <<af, yielded, last_run, rounds>>
        /\ UNCHANGED data_vars

Call_zero_pad ==
    /\ op' = "zero_pad" /\ arg' = None /\ raised' = "none"
    /\ ret' = None
    /\ af' = zero_pad(af)
    /\ before' = af
    /\ UNCHANGED <<yielded, last_run, rounds>>
    /\ UNCHANGED data_vars

Call_next ==
    /\ rounds < MaxRounds
    /\ LET r == AudioFile_next(af)
       IN  /\ op' = "__next__" /\ arg' = None
           /\ raised' = IF r.raised THEN "StopIteration" ELSE "none"
           /\ ret' = IF r.raised THEN None ELSE r.ret
           /\ af' = r.self
           /\ before' = af
           /\ yielded' = IF r.raised THEN <<>> ELSE Append(yielded, r.ret)
           /\ last_run' = IF r.raised THEN yielded ELSE last_run
           /\ rounds' = IF r.raised THEN rounds + 1 ELSE rounds
    /\ UNCHANGED data_vars

\* ---- operations on the datasets ----
\* flat indices a caller may pass: from one below -len(self) to len(self)
Indices(self) == -(Len(self.frames) + 1)..Len(self.frames)

Construct_LstDataset ==
    /\ ~resident.built
    /\ LET r == LstDataset_init(parameters, lst_file, disk)
       IN  /\ op' = "LstDataset.__init__" /\ arg' = None /\ ret' = None
           /\ raised' = r.raised
           /\ io' = r.io
           /\ resident' = r.self
    /\ UNCHANGED <<disk, lst_file, parameters, ondemand>>
    /\ UNCHANGED audio_vars

Construct_DatasetFromDisk ==
    /\ ~ondemand.built
    /\ LET r == DatasetFromDisk_init(parameters, lst_file, disk)
       IN  /\ op' = "DatasetFromDisk.__init__" /\ arg' = None /\ ret' = None
           /\ raised' = r.raised
           /\ io' = r.io
           /\ ondemand' = r.self
    /\ UNCHANGED <<disk, lst_file, parameters, resident>>
    /\ UNCHANGED audio_vars

Call_LstDataset_len ==
    /\ resident.built
    /\ op' = "LstDataset.__len__" /\ arg' = None /\ raised' = "none"
    /\ ret' = LstDataset_len(resident)
    /\ io' = <<>>
    /\ UNCHANGED <<disk, lst_file, parameters, resident, ondemand>>
    /\ UNCHANGED audio_vars

Call_DatasetFromDisk_len ==
    /\ ondemand.built
    /\ op' = "DatasetFromDisk.__len__" /\ arg' = None /\ raised' = "none"
    /\ ret' = LstDataset_len(ondemand)
    /\ io' = <<>>
    /\ UNCHANGED <<disk, lst_file, parameters, resident, ondemand>>
    /\ UNCHANGED audio_vars

Call_LstDataset_getitem ==
    /\ resident.built
    /\ \E idx \in Indices(resident) :
          LET r == LstDataset_getitem(resident, idx)
          IN  /\ op' = "LstDataset.__getitem__" /\ arg' = idx
              /\ raised' = r.raised /\ ret' = r.ret /\ io' = r.io
    /\ UNCHANGED <<disk, lst_file, parameters, resident, ondemand>>
    /\ UNCHANGED audio_vars

Call_DatasetFromDisk_getitem ==
    /\ ondemand.built
    /\ \E idx \in Indices(ondemand) :
          LET r == DatasetFromDisk_getitem(ondemand, idx, disk)
          IN  /\ op' = "DatasetFromDisk.__getitem__" /\ arg' = idx
              /\ raised' = r.raised /\ ret' = r.ret /\ io' = r.io
    /\ UNCHANGED <<disk, lst_file, parameters, resident, ondemand>>
    /\ UNCHANGED audio_vars

\* ---- specifications ----
NextAudio ==
    \/ Call_len
    \/ Call_has_next_frame
    \/ Call_get_next_frame
    \/ Call_get_frame
    \/ Call_zero_pad
    \/ Call_next

NextData ==
    \/ Construct_LstDataset
    \/ Construct_DatasetFromDisk
    \/ Call_LstDataset_len
    \/ Call_DatasetFromDisk_len
    \/ Call_LstDataset_getitem
    \/ Call_DatasetFromDisk_getitem

\* any use of one AudioFile
SpecAudio == InitAudio /\ [][NextAudio]_vars

\* an AudioFile driven through the iterator protocol only
SpecIter == InitAudio /\ [][Call_next]_vars

\* the two datasets over one manifest
Spec == InitData /\ [][NextData]_vars

\* ---- vocabulary of the properties ----
FrameLength == parameters.frame_length

IsGetItem == op \in {"LstDataset.__getitem__", "DatasetFromDisk.__getitem__"}

\* the dataset the last call was made on
Callee ==
    IF op \in {"LstDataset.__init__", "LstDataset.__len__", "LstDataset.__getitem__"}
    THEN resident ELSE ondemand

Count(self) == Len(self.frames)

\* the samples of frame frame_idx that the file at path holds, read off the
\* file system
DiskFrame(path, frame_idx) ==
    LET data == disk[path].data
        have == Min(FrameLength, Max(0, Len(data) - frame_idx * FrameLength))
    IN  [j \in 1..have |-> data[frame_idx * FrameLength + j]]

Column(frame) == [j \in 1..Len(frame) |-> <<frame[j]>>]

\* the pair a frame list entry designates
DiskPair(entry) ==
    LET row == lst_file.rows[entry.audio_idx + 1]
    IN  <<Column(DiskFrame(row.source, entry.frame_idx)),
          Column(DiskFrame(row.target, entry.frame_idx))>>

\* sources then targets, in manifest order
ListedPaths ==
    [i \in 1..Len(lst_file.rows) |-> lst_file.rows[i].source]
        \o [i \in 1..Len(lst_file.rows) |-> lst_file.rows[i].target]

\* every (file, frame) of the source column whose energy exceeds the threshold
LoudEntries ==
    {e \in [audio_idx : 0..(Len(lst_file.rows) - 1), frame_idx : 0..MaxFileLength] :
        LET data == disk[lst_file.rows[e.audio_idx + 1].source].data
            f == DiskFrame(lst_file.rows[e.audio_idx + 1].source, e.frame_idx)
        IN  /\ e.frame_idx < Len(data) \div FrameLength
            /\ SumSq(f) > silence_threshold * FrameLength}

EntryBefore(a, b) ==
    \/ a.audio_idx < b.audio_idx
    \/ a.audio_idx = b.audio_idx /\ a.frame_idx < b.frame_idx

\* ---- C1 ----
\* C1 as stated: __getitem__ of either dataset raises IndexError for every
\* index outside [0, len(self)), negative ones included.
C1_RaisesOutsideRange ==
    IsGetItem /\ (arg < 0 \/ arg >= Count(Callee)) => raised = "IndexError"

\* C1 amended: __getitem__ raises IndexError exactly for idx >= len(self)
\* and idx < -len(self) and then returns nothing; an index in [-len(self), 0)
\* is counted from the end and returns the pair of idx + len(self); no index
\* is clamped.
C1_RaisesBeyondBothEnds ==
    IsGetItem =>
        /\ raised = "IndexError" <=> (arg >= Count(Callee) \/ arg < -Count(Callee))
        /\ raised = "IndexError" => ret = None
        /\ raised # "LibsndfileError"
        /\ (arg >= 0 /\ arg < Count(Callee)) =>
               ret = DiskPair(Callee.frames[arg + 1])
        /\ (arg < 0 /\ arg >= -Count(Callee)) =>
               ret = DiskPair(Callee.frames[arg + Count(Callee) + 1])

C1_Witness ==
    /\ op = "DatasetFromDisk.__getitem__"
    /\ Count(ondemand) >= 2
    /\ arg = -1
    /\ raised = "none"
    /\ ret = DiskPair(ondemand.frames[Count(ondemand)])
    /\ ret # DiskPair(ondemand.frames[1])

\* ---- C2 ----
\* C2: for every index in [0, len(self)) __getitem__ returns a source frame
\* and a target frame that both hold exactly frame_length samples.
C2_BothFramesFull ==
    (IsGetItem /\ raised = "none" /\ arg >= 0 /\ arg < Count(Callee)) =>
        /\ Len(ret[1]) = FrameLength
        /\ Len(ret[2]) = FrameLength

\* ---- C3 ----
\* C3: once built, self.frames lists exactly the (audio_idx, frame_idx) of
\* the source frames with energy above the threshold, in ascending
\* (audio_idx, frame_idx) order without repetition, and __len__ returns their
\* number.
C3_FrameListExact ==
    /\ \A self \in {resident, ondemand} :
          self.built =>
              /\ {self.frames[i] : i \in 1..Len(self.frames)} = LoudEntries
              /\ \A i \in 1..(Len(self.frames) - 1) :
                    EntryBefore(self.frames[i], self.frames[i + 1])
    /\ op \in {"LstDataset.__len__", "DatasetFromDisk.__len__"} =>
          ret = Cardinality(LoudEntries)

\* two files, each with a kept frame, and a frame left out
C3_Witness ==
    /\ op = "LstDataset.__len__"
    /\ ret >= 2
    /\ resident.frames[1].audio_idx # resident.frames[ret].audio_idx
    /\ \E i \in 1..Len(resident.source_audio_files) :
          AudioFile_len(resident.source_audio_files[i])
              > Cardinality({e \in LoudEntries : e.audio_idx = i - 1})

\* ---- C4 ----
\* C4: built over the same manifest and files, the two datasets have the
\* same length and return the same pair for every index in [0, len(self)).
C4_VariantsAgree ==
    (resident.built /\ ondemand.built) =>
        /\ LstDataset_len(resident) = LstDataset_len(ondemand)
        /\ \A idx \in 0..(Count(resident) - 1) :
              LET a == LstDataset_getitem(resident, idx)
                  b == DatasetFromDisk_getitem(ondemand, idx, disk)
              IN  a.raised = "none" /\ b.raised = "none" /\ a.ret = b.ret

C4_Witness ==
    /\ resident.built /\ ondemand.built
    /\ op = "DatasetFromDisk.__getitem__"
    /\ raised = "none" /\ arg >= 1
    /\ ret = LstDataset_getitem(resident, arg).ret
    /\ ret[1] # ret[2]

\* ---- C5 ----
\* C5: iterating an AudioFile from frame_counter 0 yields get_frame(0) ..
\* get_frame(len(self) - 1), each of frame_length samples, then raises
\* StopIteration with frame_counter back at 0, and every later iteration
\* yields the same frames again.
C5_IterationYieldsAllFrames ==
    LET n == AudioFile_len(af)
        all == [k \in 1..n |-> get_frame(af, k - 1)]
    IN  /\ af.frame_counter = Len(yielded)
        /\ Len(yielded) <= n
        /\ yielded = SubSeq(all, 1, Len(yielded))
        /\ \A k \in 1..n : all[k] = SubSeq(af.audio_data, (k - 1) * af.frame_length + 1,
                                           k * af.frame_length)
        /\ raised = "StopIteration" => (af.frame_counter = 0 /\ yielded = <<>>)
        /\ rounds >= 1 => last_run = all
        /\ (op = "__next__" /\ raised = "none") => ret = all[Len(yielded)]

\* a second full iteration has just ended
C5_Witness ==
    /\ rounds = 2
    /\ raised = "StopIteration"
    /\ Len(last_run) >= 2

\* ---- C6 ----
\* C6: whatever is called on an AudioFile, 0 <= frame_counter <= len(self).
C6_CounterInRange ==
    /\ 0 <= af.frame_counter
    /\ af.frame_counter <= AudioFile_len(af)

\* ---- C7 ----
\* C7: zero_pad leaves a length that is a multiple of frame_length and a
\* second zero_pad changes neither the samples nor the recorded length.
C7_ZeroPadIdempotent ==
    LET once == zero_pad(af)
        twice == zero_pad(once)
    IN  /\ once.audio_length % once.frame_length = 0
        /\ once.audio_length = Len(once.audio_data)
        /\ twice = once
        /\ SubSeq(once.audio_data, 1, Len(af.audio_data)) = af.audio_data
        /\ op = "zero_pad" =>
              /\ af.audio_length % af.frame_length = 0
              /\ af.audio_length = Len(af.audio_data)
              /\ once = af

C7_Witness ==
    /\ op = "zero_pad"
    /\ Len(af.audio_data) > Len(before.audio_data)
    /\ before.audio_data # <<>>

\* ---- C8 ----
\* C8 as stated: DatasetFromDisk.__init__ decodes no audio file, and a
\* __getitem__ that returns decodes two.
C8_NoDecodeAtConstruction ==
    /\ op = "DatasetFromDisk.__init__" => io = <<>>
    /\ (op = "DatasetFromDisk.__getitem__" /\ raised = "none") => Len(io) = 2

\* C8 amended: DatasetFromDisk.__init__ decodes every source file and then
\* every target file of the manifest once, up to the first that cannot be
\* decoded, where it fails, and keeps none of the audio; a __getitem__ that
\* returns decodes exactly the source file and then the target file of its
\* row, and one that raises IndexError decodes nothing.
C8_DecodesAtConstructionAndAccess ==
    /\ op = "DatasetFromDisk.__init__" =>
          /\ raised = "none" =>
                /\ io = ListedPaths
                /\ ondemand.built
                /\ DOMAIN ondemand = {"built", "parameters", "lst_data", "frames"}
          /\ raised = "LibsndfileError" =>
                /\ io # <<>>
                /\ io = SubSeq(ListedPaths, 1, Len(io))
                /\ ~disk[io[Len(io)]].exists
                /\ \A i \in 1..(Len(io) - 1) : disk[io[i]].exists
                /\ ~ondemand.built
          /\ raised = "OSError" => (io = <<>> /\ ~lst_file.exists)
          /\ (\E i \in 1..Len(ListedPaths) : ~disk[ListedPaths[i]].exists)
                => raised = "LibsndfileError"
    /\ op = "DatasetFromDisk.__getitem__" =>
          /\ raised = "none" =>
                LET entry == ondemand.frames[PyListIndex(arg, Count(ondemand)) + 1]
                    row == ondemand.lst_data[entry.audio_idx + 1]
                IN  io = <<row.source, row.target>>
          /\ raised = "IndexError" => io = <<>>
          /\ raised \in {"none", "IndexError"}

C8_Witness ==
    /\ op = "DatasetFromDisk.__getitem__"
    /\ raised = "none"
    /\ Len(io) = 2 /\ io[1] # io[2]
    /\ Len(ondemand.lst_data) = 2

\* ---- C9 ----
\* C9: once a dataset is built, no __len__ or __getitem__ call changes the
\* manifest, the frame list or, in LstDataset, any AudioFile it holds, and
\* every AudioFile held by a built LstDataset has frame_counter 0 and the
\* samples of its file.
C9_ReadOnlyAfterConstruction ==
    [][/\ resident.built => resident' = resident
       /\ ondemand.built => ondemand' = ondemand
       /\ lst_file' = lst_file /\ disk' = disk
       /\ resident'.built =>
             /\ resident'.lst_data = lst_file.rows
             /\ \A i \in 1..Len(resident'.lst_data) :
                   LET s == resident'.source_audio_files[i]
                       t == resident'.target_audio_files[i]
                   IN  /\ s.frame_counter = 0 /\ t.frame_counter = 0
                       /\ s.audio_data = disk[resident'.lst_data[i].source].data
                       /\ t.audio_data = disk[resident'.lst_data[i].target].data
                       /\ s.audio_length = Len(s.audio_data)
                       /\ t.audio_length = Len(t.audio_data)]_vars

C9_Witness ==
    /\ resident.built
    /\ op = "LstDataset.__getitem__"
    /\ raised = "none"
    /\ \E i \in 1..Len(resident.source_audio_files) :
          AudioFile_len(resident.source_audio_files[i]) >= 2

\* ---- C10 ----
\* C10: has_next_frame is true exactly while frame_counter <= len(self); at
\* frame_counter = len(self) it is true although __next__ raises
\* StopIteration, and get_next_frame there returns fewer than frame_length
\* samples (the trailing remainder) and leaves frame_counter at len(self) + 1,
\* where has_next_frame is false; below len(self) get_next_frame returns a
\* full frame.
C10_HasNextOneBeyond ==
    LET n == AudioFile_len(af)
    IN  /\ op = "has_next_frame" => ret = (af.frame_counter <= n)
        /\ af.frame_counter = n =>
              (has_next_frame(af) /\ AudioFile_next(af).raised)
        /\ af.frame_counter = n + 1 => ~has_next_frame(af)
        /\ op = "get_next_frame" =>
              /\ af.frame_counter = before.frame_counter + 1
              /\ before.frame_counter < n => Len(ret) = af.frame_length
              /\ before.frame_counter = n =>
                    /\ Len(ret) = af.audio_length % af.frame_length
                    /\ Len(ret) < af.frame_length
                    /\ ~has_next_frame(af)

\* the boundary call after a full frame, returning a partial frame
C10_Witness ==
    /\ op = "get_next_frame"
    /\ before.frame_counter = AudioFile_len(before)
    /\ before.frame_counter >= 1
    /\ Len(ret) = 1
    /\ ~has_next_frame(af)
====
